---- MODULE Spec2Model ----
(***************************************************************************)
(* Appointment slot scheduler of the AL-SHIFA dental backend:              *)
(* SchedulerService.get_available_slots, the booking endpoints             *)
(* (create_appointment, AppointmentAgent._handle_booking,                  *)
(* AppointmentTools.book_slot), cancel / complete / block, and the         *)
(* inventory routes whose stock complete_appointment deducts.              *)
(*                                                                         *)
(* Time is counted in minutes; a datetime is date * MinutesPerDay + the    *)
(* minute of the day.  A time string is a record [h, m, p]: p = "" is the  *)
(* 24-hour form "HH:MM", p = "AM"/"PM" the 12-hour form "HH:MM AM".        *)
(* A slot identifier and a doctor id inside it are strings: sequences of    *)
(* one-character strings.                                                  *)
(* The Doctor entity carries the schedule fields that the scheduler reads  *)
(* and update_doctor_schedule_config writes.                               *)
(***************************************************************************)
EXTENDS Integers, Sequences, FiniteSets, TLC

VARIABLES doctors, appts, now, resp, slots, reqs, clinic

vars == <<doctors, appts, now, resp, slots, reqs, clinic>>

\* ------------------------------------------------------------------------
\* Bounds and input sets
\* ------------------------------------------------------------------------
MaxAppts == 2

MaxBusy == 2

\* rows of the inventory table, size of a stored quantity, rows of invoices
MaxItems == 2

MaxQty == 3

MaxInvoices == 3

DoctorIds == {1, 2}

PatientIds == {1, 2}

MinutesPerDay == 24 * 60

DoctorUserId(d) == 10 + d

PatientUserId(p) == 20 + p

Statuses == {"confirmed", "blocked", "in_progress", "completed", "cancelled"}

HM(h, m) == [h |-> h, m |-> m, p |-> ""]

HM12(h, m, p) == [h |-> h, m |-> m, p |-> p]

At(date, h, m) == date * MinutesPerDay + h * 60 + m

\* ------------------------------------------------------------------------
\* datetime.strptime / strftime
\* ------------------------------------------------------------------------
\* strptime(f"{date} {time}", "%Y-%m-%d %H:%M"); ok = FALSE is ValueError
StrpTime24(date, ts) ==
    IF ts.p = "" /\ ts.h \in 0..23 /\ ts.m \in 0..59
    THEN [ok |-> TRUE, t |-> At(date, ts.h, ts.m)]
    ELSE [ok |-> FALSE, t |-> 0]

\* strptime(f"{date} {time}", "%Y-%m-%d %I:%M %p")
StrpTime12(date, ts) ==
    IF ts.p \in {"AM", "PM"} /\ ts.h \in 1..12 /\ ts.m \in 0..59
    THEN [ok |-> TRUE,
          t |-> At(date, (ts.h % 12) + (IF ts.p = "PM" THEN 12 ELSE 0), ts.m)]
    ELSE [ok |-> FALSE, t |-> 0]

\* dt.strftime("%H:%M") (and the digits of "%H%M")
StrfTime(t) == HM((t % MinutesPerDay) \div 60, t % 60)

\* dt.strftime("%Y-%m-%d")
DateOf(t) == t \div MinutesPerDay

\* the minute of the day a rendered "HH:MM" stands for
MinuteOfDay(ts) == ts.h * 60 + ts.m

DigitChars == <<"0", "1", "2", "3", "4", "5", "6", "7", "8", "9">>

DigitChar(n) == DigitChars[n + 1]

IsDigit(c) == \E i \in 1..10 : DigitChars[i] = c

DigitVal(c) == (CHOOSE i \in 1..10 : DigitChars[i] = c) - 1

\* str(n) of an id that is a non-negative integer
RECURSIVE IntStr(_)
IntStr(n) == IF n < 10 THEN <<DigitChar(n)>> ELSE IntStr(n \div 10) \o <<DigitChar(n % 10)>>

\* dt.strftime('%H%M'): hour and minute, each zero-padded to two digits
StrfHHMM(t) ==
    LET ts == StrfTime(t)
    IN  <<DigitChar(ts.h \div 10), DigitChar(ts.h % 10),
          DigitChar(ts.m \div 10), DigitChar(ts.m % 10)>>

\* the minute field after an hour field of hlen characters: "[0-5]\d" first,
\* "\d" second; len = 0 when neither matches
MinuteField(tp, hlen) ==
    IF /\ Len(tp) >= hlen + 2
       /\ IsDigit(tp[hlen + 1]) /\ IsDigit(tp[hlen + 2])
       /\ DigitVal(tp[hlen + 1]) <= 5
    THEN [len |-> 2, m |-> DigitVal(tp[hlen + 1]) * 10 + DigitVal(tp[hlen + 2])]
    ELSE IF Len(tp) >= hlen + 1 /\ IsDigit(tp[hlen + 1])
    THEN [len |-> 1, m |-> DigitVal(tp[hlen + 1])]
    ELSE [len |-> 0, m |-> 0]

\* strptime(f"{date} {time_part}", "%Y-%m-%d %H%M"): the hour field is
\* "2[0-3]|[0-1]\d" first, "\d" second; the first match of hour and minute is
\* taken, and unconverted data after it is a ValueError
StrpTimeHHMM(date, tp) ==
    LET bad == [ok |-> FALSE, t |-> 0]
        two == /\ Len(tp) >= 2
               /\ IsDigit(tp[1]) /\ IsDigit(tp[2])
               /\ DigitVal(tp[1]) * 10 + DigitVal(tp[2]) <= 23
               /\ MinuteField(tp, 2).len > 0
        one == Len(tp) >= 1 /\ IsDigit(tp[1]) /\ MinuteField(tp, 1).len > 0
    IN  IF two
        THEN IF 2 + MinuteField(tp, 2).len = Len(tp)
             THEN [ok |-> TRUE,
                   t |-> At(date, DigitVal(tp[1]) * 10 + DigitVal(tp[2]),
                            MinuteField(tp, 2).m)]
             ELSE bad
        ELSE IF one
        THEN IF 1 + MinuteField(tp, 1).len = Len(tp)
             THEN [ok |-> TRUE, t |-> At(date, DigitVal(tp[1]), MinuteField(tp, 1).m)]
             ELSE bad
        ELSE bad

\* ------------------------------------------------------------------------
\* SchedulerService.get_available_slots
\* ------------------------------------------------------------------------
\* end_time of a row inserted without one (NULL / None)
NoEnd == -1

\* date_str argument left out: today
NoDate == -1

\* a schedule field of a doctor with nothing on record (None): a working hour,
\* a duration in minutes
NoTime == [h |-> -1, m |-> -1, p |-> "None"]

NoMinutes == -1000000

\* the tables of the clinic beside doctors and appointments, all empty:
\* inventory, treatments with their required items, the treatment_type column
\* of the appointments (by appointment id) and invoices
NoClinic == [inventory |-> <<>>, treatments |-> <<>>, treatment_type |-> <<>>,
             invoices |-> <<>>]

\* query(Doctor).filter((id == doctor_id) | (user_id == doctor_id)).first()
FindDoctor(doctor_id) ==
    LET hits == {d \in DoctorIds : d = doctor_id \/ DoctorUserId(d) = doctor_id}
    IN  IF hits = {} THEN 0 ELSE CHOOSE d \in hits : \A e \in hits : d <= e

\* fallback window of the except ValueError branch
FallbackStart == HM(9, 0)

FallbackEnd == HM(17, 0)

\* step 2: both working hours parse, or both fall back
WorkWindow(cfg, date) ==
    LET s == StrpTime24(date, cfg.work_start_time)
        e == StrpTime24(date, cfg.work_end_time)
    IN  IF s.ok /\ e.ok
        THEN [work_start |-> s.t, work_end |-> e.t]
        ELSE [work_start |-> StrpTime24(date, FallbackStart).t,
              work_end |-> StrpTime24(date, FallbackEnd).t]

\* mutant of the busy-interval query: the doctor filter left out
FetchedRowAnyDoctor(a, doc, win) ==
    /\ a.start_time >= win.work_start
    /\ a.start_time < win.work_end + MinutesPerDay
    /\ a.status # "cancelled"

\* mutant of the busy-interval query: the status filter left out
FetchedRowAnyStatus(a, doc, win) ==
    /\ a.doctor_id = doc
    /\ a.start_time >= win.work_start
    /\ a.start_time < win.work_end + MinutesPerDay

\* step 4: the rows the busy-interval query returns, in store order
FetchedRow(a, doc, win) ==
    /\ a.doctor_id = doc
    /\ a.start_time >= win.work_start
    /\ a.start_time < win.work_end + MinutesPerDay
    /\ a.status # "cancelled"

BusyIntervals(store, doc, win) ==
    SelectSeq(store, LAMBDA a : FetchedRow(a, doc, win))

\* "Standard Overlap Formula: (StartA < EndB) and (EndA > StartB)"
Overlap(startA, endA, startB, endB) == startA < endB /\ endA > startB

\* the conflict check of one candidate: "free", "conflict", or "error" when
\* the comparison reaches a row whose end_time is None (TypeError)
RECURSIVE ConflictScan(_, _, _, _)
ConflictScan(busy, i, current_time, slot_end) ==
    IF i > Len(busy) THEN "free"
    ELSE IF busy[i].end_time = NoEnd THEN "error"
    ELSE IF Overlap(current_time, slot_end, busy[i].start_time, busy[i].end_time)
         THEN "conflict"
    ELSE ConflictScan(busy, i + 1, current_time, slot_end)

\* slot_id f"{doctor.id}_{current_time.strftime('%H%M')}" of a doctor whose id
\* prints as id
SlotId(id, t) == id \o <<"_">> \o StrfHHMM(t)

SlotDict(doc, current_time, slot_end) ==
    [slot_id |-> SlotId(IntStr(doc), current_time),
     start |-> StrfTime(current_time),
     end |-> StrfTime(slot_end),
     doctor_id |-> doc]

\* mutants of the cursor step: the break subtracted, the break forgotten
NextCursorBackBreak(slot_end, break_delta) == slot_end - break_delta

NextCursorNoBreak(slot_end, break_delta) == slot_end

\* one step of the cursor: "Increment: Slot Time + Break Time"
NextCursor(slot_end, break_delta) == slot_end + break_delta

\* mutant of the while condition: a slot that ends at work_end is refused
InWorkHoursStrict(current_time, slot_delta, work_end) == current_time + slot_delta < work_end

\* mutant of the while condition: only the start of the slot is tested
InWorkHoursStartOnly(current_time, slot_delta, work_end) == current_time < work_end

\* the while condition: "Loop until the slot would exceed work hours"
InWorkHours(current_time, slot_delta, work_end) == current_time + slot_delta <= work_end

\* step 5: the generation loop; available_slots is the list built so far
RECURSIVE SlotLoop(_, _, _, _, _, _, _)
SlotLoop(doc, busy, current_time, work_end, slot_delta, break_delta, available_slots) ==
    IF InWorkHours(current_time, slot_delta, work_end)
    THEN LET slot_end == current_time + slot_delta
             c == ConflictScan(busy, 1, current_time, slot_end)
         IN  IF c = "error" THEN [error |-> TRUE, list |-> <<>>]
             ELSE SlotLoop(doc, busy, NextCursor(slot_end, break_delta), work_end,
                           slot_delta, break_delta,
                           IF c = "free"
                           THEN Append(available_slots, SlotDict(doc, current_time, slot_end))
                           ELSE available_slots)
    ELSE [error |-> FALSE, list |-> available_slots]

GetAvailableSlots(docs, store, today, doctor_id, date_arg) ==
    LET date == IF date_arg = NoDate THEN DateOf(today) ELSE date_arg
        doc == FindDoctor(doctor_id)
    IN  IF doc = 0 THEN [error |-> FALSE, list |-> <<>>]
        ELSE LET cfg == docs[doc]
                 win == WorkWindow(cfg, date)
             IN  \* step 3: timedelta(minutes=None) raises TypeError
                 IF cfg.slot_duration = NoMinutes \/ cfg.break_duration = NoMinutes
                 THEN [error |-> TRUE, list |-> <<>>]
                 ELSE SlotLoop(doc, BusyIntervals(store, doc, win), win.work_start,
                               win.work_end, cfg.slot_duration, cfg.break_duration, <<>>)

\* ------------------------------------------------------------------------
\* SchedulerService.update_doctor_schedule_config
\* ------------------------------------------------------------------------
\* style_map.get(consultation_style, 30)
StyleDuration(style) ==
    CASE style = "fast" -> 15
      [] style = "normal" -> 30
      [] style = "detailed" -> 45
      [] style = "surgery" -> 60
      [] OTHER -> 30

\* break_duration = 10 if wants_breaks else 0
BreakFor(wants_breaks) == IF wants_breaks THEN 10 ELSE 0

\* query(Doctor).filter(Doctor.user_id == doctor_user_id).first()
DoctorByUser(user_id) ==
    LET hits == {d \in DoctorIds : DoctorUserId(d) = user_id}
    IN  IF hits = {} THEN 0 ELSE CHOOSE d \in hits : \A e \in hits : d <= e

Config(ws, we, sd, bd) ==
    [work_start_time |-> ws, work_end_time |-> we, slot_duration |-> sd, break_duration |-> bd]

\* the response of the last call
Resp(op, outcome, doctor, date, start, appt) ==
    [op |-> op, outcome |-> outcome, doctor |-> doctor, date |-> date,
     start |-> start, appt |-> appt]

NoResp == Resp("none", "none", 0, 0, 0, 0)

update_doctor_schedule_config(doctor_user_id, style, wants_breaks, work_start, work_end) ==
    LET doc == DoctorByUser(doctor_user_id)
    IN  /\ IF doc = 0
           THEN /\ doctors' = doctors
                /\ resp' = Resp("update_doctor_schedule_config", "ValueError",
                                doctor_user_id, 0, 0, 0)
           ELSE /\ doctors' = [doctors EXCEPT ![doc] =
                                 Config(work_start, work_end, StyleDuration(style),
                                        BreakFor(wants_breaks))]
                /\ resp' = Resp("update_doctor_schedule_config", "success",
                                doctor_user_id, 0, 0, 0)
        /\ slots' = <<>>
        /\ UNCHANGED <<appts, now, reqs, clinic>>

\* mutant of get_available_slots: the service keeps the list it computed last
\* and answers from it while it is not empty
get_available_slots_Cached(doctor_id, date_arg) ==
    LET r == GetAvailableSlots(doctors, appts, now, doctor_id, date_arg)
    IN  /\ slots' = IF slots # <<>> THEN slots ELSE r.list
        /\ resp' = Resp("get_available_slots", IF r.error THEN "TypeError" ELSE "ok",
                        doctor_id,
                        IF date_arg = NoDate THEN DateOf(now) ELSE date_arg, 0, 0)
        /\ UNCHANGED <<doctors, appts, now, reqs, clinic>>

get_available_slots(doctor_id, date_arg) ==
    LET r == GetAvailableSlots(doctors, appts, now, doctor_id, date_arg)
    IN  /\ slots' = r.list
        /\ resp' = Resp("get_available_slots", IF r.error THEN "TypeError" ELSE "ok",
                        doctor_id,
                        IF date_arg = NoDate THEN DateOf(now) ELSE date_arg, 0, 0)
        /\ UNCHANGED <<doctors, appts, now, reqs, clinic>>

\* ------------------------------------------------------------------------
\* SpecGen: the scheduler over a stored appointment table
\* ------------------------------------------------------------------------
Row(doc, pat, start, end, status) ==
    [doctor_id |-> doc, patient_id |-> pat, start_time |-> start, end_time |-> end,
     status |-> status]

GenStarts == {At(0, 8, 45), At(0, 9, 30)}

\* stored rows: bookings of doctor 1 (some cancelled) and one of doctor 2
GenRows ==
    {Row(1, 1, s, s + 30, st) : s \in GenStarts, st \in {"confirmed", "cancelled"}}
        \cup {Row(2, 2, At(0, 9, 0), At(0, 9, 30), "confirmed")}

GenStores == UNION {[1..n -> GenRows] : n \in 0..MaxBusy}

GenWorkStarts == {HM(9, 0), HM(8, 30)}

GenWorkEnds == {HM(11, 0), HM(10, 59)}

\* stored configurations: the products of the styles and windows, one with
\* other durations, two whose work_start_time does not parse, one whose
\* work_end_time is before its work_start_time, and two with fields missing
GenInitConfigs ==
    {Config(ws, we, sd, bd) : ws \in GenWorkStarts, we \in GenWorkEnds,
                              sd \in {15, 30, 45}, bd \in {0, 10}}
        \cup {Config(HM(9, 0), HM(10, 0), 20, 5),
              Config(HM(25, 0), HM(11, 0), 30, 0),
              Config(HM(25, 0), HM(10, 59), 45, 10),
              Config(HM(11, 0), HM(9, 0), 30, 0),
              Config(NoTime, NoTime, NoMinutes, NoMinutes),
              Config(NoTime, NoTime, 30, 0)}

\* the schedule of the other doctor
OtherConfig == Config(HM(9, 0), HM(10, 0), 30, 0)

GenStyles == {"fast", "normal", "detailed", "surgery", "relaxed"}

GenUpdates ==
    {<<DoctorUserId(1), style, wb, HM(9, 0), HM(11, 0)>> : style \in GenStyles, wb \in BOOLEAN}
        \cup {<<0, "normal", FALSE, HM(9, 0), HM(17, 0)>>}

GenQueries == {<<1, 0>>, <<1, 1>>, <<DoctorUserId(1), NoDate>>, <<2, 0>>, <<0, 0>>}

NoReqs == <<>>

InitGen ==
    /\ \E c \in GenInitConfigs : doctors = [d \in DoctorIds |-> IF d = 1 THEN c ELSE OtherConfig]
    /\ appts \in GenStores
    /\ now = At(0, 8, 0)
    /\ resp = NoResp
    /\ slots = <<>>
    /\ reqs = NoReqs
    /\ clinic = NoClinic

GenUpdateConfig ==
    \E u \in GenUpdates : update_doctor_schedule_config(u[1], u[2], u[3], u[4], u[5])

GenQuery ==
    \E q \in GenQueries : get_available_slots(q[1], q[2])

NextGen == GenUpdateConfig \/ GenQuery

SpecGen == InitGen /\ [][NextGen]_vars

\* ------------------------------------------------------------------------
\* The HTTP handlers of main.py
\* ------------------------------------------------------------------------
\* user.role of the caller
Role(user) ==
    IF \E p \in PatientIds : PatientUserId(p) = user THEN "patient"
    ELSE IF \E d \in DoctorIds : DoctorUserId(d) = user THEN "doctor"
    ELSE "none"

\* query(Patient).filter(Patient.user_id == user.id).first()
PatientByUser(user) ==
    LET hits == {p \in PatientIds : PatientUserId(p) = user}
    IN  IF hits = {} THEN 0 ELSE CHOOSE p \in hits : \A e \in hits : p <= e

\* query(Doctor).filter(Doctor.id == doctor_id).first()
DoctorById(doctor_id) == IF doctor_id \in DoctorIds THEN doctor_id ELSE 0

\* patient_id of a block (None)
NoPatient == 0

\* end_dt = start_dt + timedelta(minutes=30)
BookingMinutes == 30

\* the two formats create_appointment accepts, 12-hour first
ParseBookingTime(date, time) ==
    IF StrpTime12(date, time).ok THEN StrpTime12(date, time) ELSE StrpTime24(date, time)

\* status.in_(["confirmed", "blocked", "completed"])
BlockingStatus(status) == status \in {"confirmed", "blocked", "completed"}

\* the rows of the CHECK OVERLAP query of create_appointment
OverlapRows(store, doc, start_dt, end_dt) ==
    {k \in 1..Len(store) :
        /\ store[k].doctor_id = doc
        /\ BlockingStatus(store[k].status)
        /\ store[k].start_time < end_dt
        /\ store[k].end_time # NoEnd
        /\ store[k].end_time > start_dt}

ConflictMessage(status) == IF status = "blocked" THEN "unavailable" ELSE "already booked"

\* mutant of the rule order: the overlap check before the past-time check
CreateVerdictConflictFirst(start_dt, today, hits) ==
    IF hits # {} THEN "conflict" ELSE IF start_dt < today THEN "past" ELSE "accept"

\* the rules of the booking guard in the order of the code: "Cannot book in
\* the past" first, the overlap query second
CreateVerdict(start_dt, today, hits) ==
    IF start_dt < today THEN "past" ELSE IF hits # {} THEN "conflict" ELSE "accept"

create_appointment(user, doctor_id, date, time) ==
    LET op == "create_appointment"
        doc == DoctorById(doctor_id)
        parsed == ParseBookingTime(date, time)
        start_dt == parsed.t
        end_dt == start_dt + BookingMinutes
        hits == OverlapRows(appts, doc, start_dt, end_dt)
    IN  /\ slots' = <<>>
        /\ UNCHANGED <<doctors, now, reqs, clinic>>
        /\ IF Role(user) # "patient"
           THEN /\ resp' = Resp(op, "403", doctor_id, date, 0, 0)
                /\ appts' = appts
           ELSE IF PatientByUser(user) = 0
           THEN /\ resp' = Resp(op, "400 no profile", doctor_id, date, 0, 0)
                /\ appts' = appts
           ELSE IF doc = 0
           THEN /\ resp' = Resp(op, "404", doctor_id, date, 0, 0)
                /\ appts' = appts
           ELSE IF ~parsed.ok
           THEN /\ resp' = Resp(op, "400 format", doctor_id, date, 0, 0)
                /\ appts' = appts
           ELSE IF CreateVerdict(start_dt, now, hits) = "past"
           THEN /\ resp' = Resp(op, "past", doctor_id, date, start_dt, 0)
                /\ appts' = appts
           ELSE IF CreateVerdict(start_dt, now, hits) = "conflict"
           THEN /\ \E k \in hits :
                      resp' = Resp(op, ConflictMessage(appts[k].status), doctor_id, date,
                                   start_dt, k)
                /\ appts' = appts
           ELSE /\ Len(appts) < MaxAppts
                /\ appts' = Append(appts, Row(doctor_id, PatientByUser(user), start_dt,
                                              end_dt, "confirmed"))
                /\ resp' = Resp(op, "booked", doctor_id, date, start_dt, Len(appts) + 1)

cancel_patient_appointment(user, appt_id) ==
    LET op == "cancel_patient_appointment"
        patient == PatientByUser(user)
    IN  /\ slots' = <<>>
        /\ UNCHANGED <<doctors, now, reqs, clinic>>
        /\ IF Role(user) # "patient"
           THEN /\ resp' = Resp(op, "403", 0, 0, 0, appt_id)
                /\ appts' = appts
           ELSE IF patient = 0
           THEN /\ resp' = Resp(op, "404 no profile", 0, 0, 0, appt_id)
                /\ appts' = appts
           ELSE IF appt_id \notin 1..Len(appts)
           THEN /\ resp' = Resp(op, "404", 0, 0, 0, appt_id)
                /\ appts' = appts
           ELSE IF appts[appt_id].patient_id # patient
           THEN /\ resp' = Resp(op, "403 not yours", 0, 0, 0, appt_id)
                /\ appts' = appts
           ELSE IF appts[appt_id].status \in {"cancelled", "completed"}
           THEN /\ resp' = Resp(op, "400 closed", 0, 0, 0, appt_id)
                /\ appts' = appts
           ELSE /\ appts' = [appts EXCEPT ![appt_id].status = "cancelled"]
                /\ resp' = Resp(op, "cancelled", appts[appt_id].doctor_id, 0,
                                appts[appt_id].start_time, appt_id)

\* the treatments table is empty here, so the catalog lookup of
\* complete_appointment finds nothing: no invoice, no stock deduction
\* Doctor.hospital_id: doctor d works at hospital d
HospitalOf(doc) == doc

Item(hospital, name, quantity) ==
    [hospital_id |-> hospital, name |-> name, quantity |-> quantity]

Link(item, required) == [item_id |-> item, quantity_required |-> required]

Treatment(hospital, name, cost, links) ==
    [hospital_id |-> hospital, name |-> name, cost |-> cost, required_items |-> links]

Invoice(appt, patient, amount) ==
    [appointment_id |-> appt, patient_id |-> patient, amount |-> amount, status |-> "pending"]

\* appt.treatment_type
TreatmentType(id) ==
    IF id \in 1..Len(clinic.treatment_type) THEN clinic.treatment_type[id] ELSE "None"

\* query(Treatment).filter(name == appt.treatment_type,
\*                         hospital_id == doctor.hospital_id).first(), 0 for None
FindTreatment(name, hospital) ==
    LET hits == {t \in 1..Len(clinic.treatments) :
                    /\ clinic.treatments[t].name = name
                    /\ clinic.treatments[t].hospital_id = hospital}
    IN  IF hits = {} THEN 0 ELSE CHOOSE t \in hits : \A u \in hits : t <= u

\* the first loop over treatment.required_items: the links whose item holds
\* less than quantity_required
MissingItems(inventory, links) ==
    {l \in 1..Len(links) :
        inventory[links[l].item_id].quantity < links[l].quantity_required}

\* the second loop: link.item.quantity -= link.quantity_required, link by link
RECURSIVE DeductLinks(_, _, _)
DeductLinks(inventory, links, l) ==
    IF l > Len(links) THEN inventory
    ELSE DeductLinks([inventory EXCEPT
                         ![links[l].item_id].quantity = @ - links[l].quantity_required],
                     links, l + 1)

\* mutant of the guard of complete_appointment: no appointment counts as
\* completed already
AlreadyCompletedNever(status) == FALSE

\* if appt.status == "completed": return {"message": "Already completed"}
AlreadyCompleted(status) == status = "completed"

complete_appointment(user, id) ==
    LET op == "complete_appointment"
        doc == DoctorByUser(user)
        t == FindTreatment(TreatmentType(id), HospitalOf(doc))
        links == clinic.treatments[t].required_items
    IN  /\ slots' = <<>>
        /\ UNCHANGED <<doctors, now, reqs>>
        /\ IF Role(user) # "doctor"
           THEN /\ resp' = Resp(op, "403", 0, 0, 0, id)
                /\ UNCHANGED <<appts, clinic>>
           ELSE IF id \notin 1..Len(appts) \/ appts[id].doctor_id # doc
           THEN /\ resp' = Resp(op, "404", doc, 0, 0, id)
                /\ UNCHANGED <<appts, clinic>>
           ELSE IF AlreadyCompleted(appts[id].status)
           THEN /\ resp' = Resp(op, "Already completed", doc, 0, 0, id)
                /\ UNCHANGED <<appts, clinic>>
           ELSE IF t = 0
           THEN /\ appts' = [appts EXCEPT ![id].status = "completed"]
                /\ clinic' = clinic
                /\ resp' = Resp(op, "Completed", doc, 0, appts[id].start_time, id)
           ELSE IF MissingItems(clinic.inventory, links) # {}
           THEN /\ resp' = Resp(op, "400 Insufficient Stock", doc, 0, 0, id)
                /\ UNCHANGED <<appts, clinic>>
           ELSE /\ Len(clinic.invoices) < MaxInvoices
                /\ appts' = [appts EXCEPT ![id].status = "completed"]
                /\ clinic' = [clinic EXCEPT
                                 !.inventory = DeductLinks(clinic.inventory, links, 1),
                                 !.invoices = Append(@, Invoice(id, appts[id].patient_id,
                                                                clinic.treatments[t].cost))]
                /\ resp' = Resp(op, "Completed", doc, 0, appts[id].start_time, id)

\* max(0, item.quantity + data.quantity)
Max0(n) == IF n < 0 THEN 0 ELSE n

\* PUT /inventory/{item_id}
update_inventory_qty(user, item_id, quantity) ==
    LET op == "update_inventory_qty"
        doc == DoctorByUser(user)
    IN  /\ slots' = <<>>
        /\ UNCHANGED <<doctors, appts, now, reqs>>
        /\ IF Role(user) # "doctor"
           THEN /\ resp' = Resp(op, "403", 0, 0, 0, item_id)
                /\ clinic' = clinic
           ELSE IF \/ item_id \notin 1..Len(clinic.inventory)
                   \/ clinic.inventory[item_id].hospital_id # HospitalOf(doc)
           THEN /\ resp' = Resp(op, "404", doc, 0, 0, item_id)
                /\ clinic' = clinic
           ELSE /\ clinic.inventory[item_id].quantity + quantity <= MaxQty
                /\ clinic' = [clinic EXCEPT !.inventory[item_id].quantity =
                                                Max0(@ + quantity)]
                /\ resp' = Resp(op, "Updated", doc, 0, 0, item_id)

\* POST /inventory
add_inventory_item(user, name, quantity) ==
    LET op == "add_inventory_item"
        doc == DoctorByUser(user)
    IN  /\ slots' = <<>>
        /\ UNCHANGED <<doctors, appts, now, reqs>>
        /\ IF Role(user) # "doctor"
           THEN /\ resp' = Resp(op, "403", 0, 0, 0, 0)
                /\ clinic' = clinic
           ELSE /\ Len(clinic.inventory) < MaxItems
                /\ clinic' = [clinic EXCEPT
                                 !.inventory = Append(@, Item(HospitalOf(doc), name, quantity))]
                /\ resp' = Resp(op, "added", doc, 0, 0, Len(clinic.inventory) + 1)

\* a row of an uploaded file: its name and its quantity column as int() reads
\* it (ok is FALSE for a ValueError or a missing column)
CsvRow(name, ok, quantity) == [name |-> name, ok |-> ok, quantity |-> quantity]

\* query(InventoryItem).filter(hospital_id == ..., name == name).first()
FindItem(inventory, hospital, name) ==
    LET hits == {i \in 1..Len(inventory) :
                    inventory[i].hospital_id = hospital /\ inventory[i].name = name}
    IN  IF hits = {} THEN 0 ELSE CHOOSE i \in hits : \A j \in hits : i <= j

\* the loop "for row in csvReader" of upload_inventory
RECURSIVE UploadRows(_, _, _, _)
UploadRows(inventory, hospital, rows, r) ==
    IF r > Len(rows) THEN inventory
    ELSE IF ~rows[r].ok THEN UploadRows(inventory, hospital, rows, r + 1)
    ELSE LET existing == FindItem(inventory, hospital, rows[r].name)
         IN  IF existing # 0
             THEN UploadRows([inventory EXCEPT ![existing].quantity = @ + rows[r].quantity],
                             hospital, rows, r + 1)
             ELSE UploadRows(Append(inventory, Item(hospital, rows[r].name, rows[r].quantity)),
                             hospital, rows, r + 1)

\* POST /inventory/upload
upload_inventory(user, rows) ==
    LET op == "upload_inventory"
        doc == DoctorByUser(user)
        after == UploadRows(clinic.inventory, HospitalOf(doc), rows, 1)
    IN  /\ slots' = <<>>
        /\ UNCHANGED <<doctors, appts, now, reqs>>
        /\ IF Role(user) # "doctor"
           THEN /\ resp' = Resp(op, "403", 0, 0, 0, 0)
                /\ clinic' = clinic
           ELSE /\ Len(after) <= MaxItems
                /\ \A i \in 1..Len(after) : after[i].quantity \in -MaxQty..MaxQty
                /\ clinic' = [clinic EXCEPT !.inventory = after]
                /\ resp' = Resp(op, "processed", doc, 0, 0,
                                Cardinality({r \in 1..Len(rows) : rows[r].ok}))

\* date_obj.replace(hour=23, minute=59, second=59): against datetimes of whole
\* minutes, 23:59:59 compares as the midnight that follows
EndOfDay(date) == At(date, 23, 59) + 1

\* mutant of the past rule: a block that starts exactly now is past as well
BlockInPastInclusive(start_dt, current) == start_dt <= current

\* if start_dt < datetime.now()
BlockInPast(start_dt, current) == start_dt < current

block_schedule_slot(user, date, time, is_whole_day) ==
    LET op == "block_schedule_slot"
        doc == DoctorByUser(user)
        parsed == IF is_whole_day THEN [ok |-> TRUE, t |-> At(date, 0, 0)]
                  ELSE StrpTime12(date, time)
        start_dt == parsed.t
        end_dt == IF is_whole_day THEN EndOfDay(date) ELSE start_dt + BookingMinutes
    IN  /\ slots' = <<>>
        /\ UNCHANGED <<doctors, now, reqs, clinic>>
        /\ IF Role(user) # "doctor"
           THEN /\ resp' = Resp(op, "403", 0, date, 0, 0)
                /\ appts' = appts
           ELSE IF ~parsed.ok
           THEN /\ resp' = Resp(op, "400 format", doc, date, 0, 0)
                /\ appts' = appts
           ELSE IF BlockInPast(start_dt, now)
           THEN /\ resp' = Resp(op, "past", doc, date, start_dt, 0)
                /\ appts' = appts
           ELSE /\ Len(appts) < MaxAppts
                /\ appts' = Append(appts, Row(doc, NoPatient, start_dt, end_dt, "blocked"))
                /\ resp' = Resp(op, IF is_whole_day THEN "blocked day" ELSE "blocked",
                                doc, date, start_dt, Len(appts) + 1)

\* ------------------------------------------------------------------------
\* AppointmentAgent._handle_booking and AppointmentTools.book_slot
\* ------------------------------------------------------------------------
\* slot_id left out of the request (None or "")
NoSlotId == <<>>

Separators(s) == {i \in 1..Len(s) : s[i] = "_"}

\* mutant of the split: at the first separator, as split('_', 1) does
FirstSeparator(s) ==
    IF Separators(s) = {} THEN 0
    ELSE CHOOSE i \in Separators(s) : \A j \in Separators(s) : i <= j

\* the place where rsplit('_', 1) splits: the last separator, 0 without one
LastSeparator(s) ==
    IF Separators(s) = {} THEN 0
    ELSE CHOOSE i \in Separators(s) : \A j \in Separators(s) : j <= i

\* doc_id_part, time_part = slot_id.rsplit('_', 1) and
\* strptime(f"{date} {time_part}", "%Y-%m-%d %H%M"); a slot_id without a
\* separator does not unpack (ValueError)
DecodeSlotId(slot_id, date) ==
    LET i == LastSeparator(slot_id)
    IN  IF i = 0
        THEN [doc_id_part |-> <<>>, start |-> [ok |-> FALSE, t |-> 0]]
        ELSE [doc_id_part |-> SubSeq(slot_id, 1, i - 1),
              start |-> StrpTimeHHMM(date, SubSeq(slot_id, i + 1, Len(slot_id)))]

\* the number a string of digits stands for
RECURSIVE StrVal(_)
StrVal(part) ==
    IF Len(part) = 0 THEN 0
    ELSE StrVal(SubSeq(part, 1, Len(part) - 1)) * 10 + DigitVal(part[Len(part)])

\* query(Doctor).filter(Doctor.id == doc_id_part).first(): the integer column
\* compared with the number the string stands for; no row for another string
DoctorByIdStr(part) ==
    IF Len(part) > 0 /\ \A i \in 1..Len(part) : IsDigit(part[i])
    THEN DoctorById(StrVal(part))
    ELSE 0

\* "3. Double Check Availability": a row of the doctor with the same start
SameStartRows(store, doc, start_dt) ==
    {k \in 1..Len(store) :
        /\ store[k].doctor_id = doc
        /\ store[k].start_time = start_dt
        /\ store[k].status # "cancelled"}

\* mutant of _handle_booking: the appointment is added before the availability
\* check and stays when the check rejects
handle_booking_AddBeforeCheck(slot_id, patient_id, date_arg) ==
    LET op == "handle_booking"
        date == IF date_arg = NoDate THEN DateOf(now) ELSE date_arg
        dec == DecodeSlotId(slot_id, date)
        doc == DoctorByIdStr(dec.doc_id_part)
        start_dt == dec.start.t
        new_appt == Row(doc, patient_id, start_dt, start_dt + doctors[doc].slot_duration,
                        "confirmed")
    IN  /\ slots' = <<>>
        /\ UNCHANGED <<doctors, now, reqs, clinic>>
        /\ IF slot_id = NoSlotId
           THEN /\ resp' = Resp(op, "ask_slot", 0, date, 0, 0)
                /\ appts' = appts
           ELSE IF patient_id = NoPatient
           THEN /\ resp' = Resp(op, "ask_auth", 0, date, 0, 0)
                /\ appts' = appts
           ELSE IF ~dec.start.ok \/ doc = 0
           THEN /\ resp' = Resp(op, "invalid slot", 0, date, 0, 0)
                /\ appts' = appts
           ELSE /\ Len(appts) < MaxAppts
                /\ appts' = Append(appts, new_appt)
                /\ resp' = IF SameStartRows(appts, doc, start_dt) # {}
                           THEN Resp(op, "retry_slot", doc, date, start_dt, 0)
                           ELSE Resp(op, "booking_confirmed", doc, date, start_dt,
                                     Len(appts) + 1)

handle_booking(slot_id, patient_id, date_arg) ==
    LET op == "handle_booking"
        date == IF date_arg = NoDate THEN DateOf(now) ELSE date_arg
        dec == DecodeSlotId(slot_id, date)
        doc == DoctorByIdStr(dec.doc_id_part)
        start_dt == dec.start.t
    IN  /\ slots' = <<>>
        /\ UNCHANGED <<doctors, now, reqs, clinic>>
        /\ IF slot_id = NoSlotId
           THEN /\ resp' = Resp(op, "ask_slot", 0, date, 0, 0)
                /\ appts' = appts
           ELSE IF patient_id = NoPatient
           THEN /\ resp' = Resp(op, "ask_auth", 0, date, 0, 0)
                /\ appts' = appts
           ELSE IF ~dec.start.ok \/ doc = 0
           THEN /\ resp' = Resp(op, "invalid slot", 0, date, 0, 0)
                /\ appts' = appts
           ELSE IF SameStartRows(appts, doc, start_dt) # {}
           THEN /\ resp' = Resp(op, "retry_slot", doc, date, start_dt, 0)
                /\ appts' = appts
           ELSE /\ Len(appts) < MaxAppts
                /\ appts' = Append(appts, Row(doc, patient_id, start_dt,
                                              start_dt + doctors[doc].slot_duration,
                                              "confirmed"))
                /\ resp' = Resp(op, "booking_confirmed", doc, date, start_dt, Len(appts) + 1)

\* AppointmentTools.check_slot_availability
CheckSlotAvailability(store, doctor_id, date, time) ==
    /\ StrpTime12(date, time).ok
    /\ ~\E k \in 1..Len(store) :
          /\ store[k].doctor_id = doctor_id
          /\ store[k].start_time = StrpTime12(date, time).t
          /\ store[k].status \in {"confirmed", "blocked"}

book_slot(patient_user, doctor_id, date, time) ==
    LET op == "book_slot"
        start_dt == StrpTime12(date, time).t
        patient == PatientByUser(patient_user)
    IN  /\ slots' = <<>>
        /\ UNCHANGED <<doctors, now, reqs, clinic>>
        /\ IF ~CheckSlotAvailability(appts, doctor_id, date, time)
           THEN /\ resp' = Resp(op, "Slot unavailable", doctor_id, date, 0, 0)
                /\ appts' = appts
           ELSE IF patient = 0
           THEN /\ resp' = Resp(op, "Patient profile not found", doctor_id, date, start_dt, 0)
                /\ appts' = appts
           ELSE /\ Len(appts) < MaxAppts
                /\ appts' = Append(appts, Row(doctor_id, patient, start_dt, NoEnd, "confirmed"))
                /\ resp' = Resp(op, "success", doctor_id, date, start_dt, Len(appts) + 1)

\* ------------------------------------------------------------------------
\* Spec: the handlers called one at a time on one database
\* ------------------------------------------------------------------------
\* the instants datetime.now() takes: the eve of day 1, then day 1 at 09:15
Clock == <<At(0, 23, 0), At(1, 9, 15)>>

\* the table as found at start-up: empty, or holding a visit in progress
SeedStores == {<<>>, <<Row(1, 1, At(1, 9, 30), At(1, 10, 0), "in_progress")>>}

InitConfigs == {Config(HM(9, 0), HM(11, 0), 30, 0)}

CreateRequests ==
    {<<PatientUserId(1), 1, 1, HM(9, 0)>>,
     <<PatientUserId(2), 1, 1, HM12(9, 15, "AM")>>,
     <<PatientUserId(1), 2, 1, HM(9, 0)>>,
     <<PatientUserId(1), 1, 1, HM(9, 75)>>,
     <<PatientUserId(2), 3, 1, HM(9, 0)>>,
     <<DoctorUserId(1), 3, 1, HM(9, 0)>>}

BlockRequests ==
    {<<DoctorUserId(1), 1, HM(0, 0), TRUE>>,
     <<DoctorUserId(1), 1, HM12(9, 0, "AM"), FALSE>>,
     <<DoctorUserId(1), 1, HM(9, 0), FALSE>>}

\* "1_0900" on day 1, "1_0975", "3_0900" of no doctor, and no slot_id
AgentRequests ==
    {<<SlotId(IntStr(1), At(1, 9, 0)), 1, 1>>,
     <<<<"1", "_", "0", "9", "7", "5">>, 1, NoDate>>,
     <<SlotId(IntStr(3), At(1, 9, 0)), 1, 1>>,
     <<<<"1", "0", "9", "0", "0">>, 1, 1>>,
     <<<<"1", "_", "9", "0", "0">>, 1, 1>>,
     <<NoSlotId, NoPatient, 1>>}

ToolRequests ==
    {<<PatientUserId(1), 1, 1, HM12(9, 0, "AM")>>,
     <<PatientUserId(1), 1, 1, HM(9, 0)>>}

Queries == {<<1, 1>>, <<2, 1>>, <<DoctorUserId(1), NoDate>>}

CancelRequests ==
    {<<PatientUserId(p), id>> : p \in PatientIds, id \in 1..MaxAppts}
        \cup {<<PatientUserId(1), MaxAppts + 1>>}

\* each doctor completes the first appointment of the table
CompleteRequests == {<<DoctorUserId(1), 1>>, <<DoctorUserId(2), 1>>}

Init ==
    /\ \E c \in InitConfigs : doctors = [d \in DoctorIds |-> IF d = 1 THEN c ELSE OtherConfig]
    /\ appts \in SeedStores
    /\ now = Clock[1]
    /\ resp = NoResp
    /\ slots = <<>>
    /\ reqs = NoReqs
    /\ clinic = NoClinic

Tick ==
    /\ \E i \in 1..(Len(Clock) - 1) : now = Clock[i] /\ now' = Clock[i + 1]
    /\ resp' = Resp("tick", "none", 0, 0, 0, 0)
    /\ slots' = <<>>
    /\ UNCHANGED <<doctors, appts, reqs, clinic>>

CreateAppointment == \E r \in CreateRequests : create_appointment(r[1], r[2], r[3], r[4])

CancelAppointment == \E r \in CancelRequests : cancel_patient_appointment(r[1], r[2])

CompleteAppointment == \E r \in CompleteRequests : complete_appointment(r[1], r[2])

BlockSlot == \E r \in BlockRequests : block_schedule_slot(r[1], r[2], r[3], r[4])

AgentBooking == \E r \in AgentRequests : handle_booking(r[1], r[2], r[3])

ToolBooking == \E r \in ToolRequests : book_slot(r[1], r[2], r[3], r[4])

Query == \E q \in Queries : get_available_slots(q[1], q[2])

Next ==
    \/ CreateAppointment
    \/ CancelAppointment
    \/ CompleteAppointment
    \/ BlockSlot
    \/ AgentBooking
    \/ ToolBooking
    \/ Query
    \/ Tick

Spec == Init /\ [][Next]_vars

\* ------------------------------------------------------------------------
\* Specification SpecSeq: create_appointment, cancel_patient_appointment and
\* complete_appointment called one after another over a table that starts
\* empty
\* ------------------------------------------------------------------------
InitSeq ==
    /\ \E c \in InitConfigs : doctors = [d \in DoctorIds |-> IF d = 1 THEN c ELSE OtherConfig]
    /\ appts = <<>>
    /\ now = Clock[1]
    /\ resp = NoResp
    /\ slots = <<>>
    /\ reqs = NoReqs
    /\ clinic = NoClinic

NextSeq ==
    \/ CreateAppointment
    \/ CancelAppointment
    \/ CompleteAppointment
    \/ Tick

SpecSeq == InitSeq /\ [][NextSeq]_vars

\* ------------------------------------------------------------------------
\* Specification SpecAgree: a patient asks for the slots of doctor 1 on the
\* next day and submits the start of an offered slot to create_appointment,
\* under each consultation length and break; the assistant books for another
\* patient in between
\* ------------------------------------------------------------------------
AgreeDate == 1

AgreeConfigs ==
    {Config(HM(9, 0), HM(10, 0), sd, bd) : sd \in {15, 30, 45, 60}, bd \in {0, 5}}

\* slot identifiers the assistant books: 09:15 and 09:30 of doctor 1
AgreeSlotIds == {SlotId(IntStr(1), At(AgreeDate, 9, 15)), SlotId(IntStr(1), At(AgreeDate, 9, 30))}

InitAgree ==
    /\ \E c \in AgreeConfigs : doctors = [d \in DoctorIds |-> IF d = 1 THEN c ELSE OtherConfig]
    /\ appts = <<>>
    /\ now = At(0, 8, 0)
    /\ resp = NoResp
    /\ slots = <<>>
    /\ reqs = NoReqs
    /\ clinic = NoClinic

AgreeQuery == get_available_slots(1, AgreeDate)

\* the start of a slot of the list just returned goes to POST /appointments
AgreeSubmit ==
    /\ resp.op = "get_available_slots"
    /\ \E i \in 1..Len(slots), p \in PatientIds :
          create_appointment(PatientUserId(p), slots[i].doctor_id, resp.date, slots[i].start)

AgreeAgent == \E s \in AgreeSlotIds : handle_booking(s, 2, AgreeDate)

NextAgree == AgreeQuery \/ AgreeSubmit \/ AgreeAgent

SpecAgree == InitAgree /\ [][NextAgree]_vars

\* ------------------------------------------------------------------------
\* SpecRace: two create_appointment requests served concurrently.  A request
\* runs its checks and the CHECK OVERLAP query (RaceCheck), and later its
\* db.add / db.commit (RaceInsert); nothing orders the two requests.
\* ------------------------------------------------------------------------
RaceIds == {1, 2}

RaceRequests ==
    {<<PatientUserId(1), 1, 1, HM(9, 0)>>,
     <<PatientUserId(2), 1, 1, HM12(9, 15, "AM")>>,
     <<PatientUserId(2), 1, 1, HM12(10, 0, "AM")>>,
     <<PatientUserId(1), 2, 1, HM(9, 0)>>}

RaceReq(args) ==
    [pc |-> "start", user |-> args[1], doctor |-> args[2],
     start |-> ParseBookingTime(args[3], args[4]).t, outcome |-> "none"]

InitRace ==
    /\ doctors = [d \in DoctorIds |-> OtherConfig]
    /\ appts \in SeedStores
    /\ now = Clock[1]
    /\ resp = NoResp
    /\ slots = <<>>
    /\ \E a, b \in RaceRequests : reqs = <<RaceReq(a), RaceReq(b)>>
    /\ clinic = NoClinic

\* lines 164-179: the past-time rule and the overlap query
RaceCheck(r) ==
    LET q == reqs[r]
        hits == OverlapRows(appts, q.doctor, q.start, q.start + BookingMinutes)
        v == CreateVerdict(q.start, now, hits)
    IN  /\ q.pc = "start"
        /\ IF v = "accept"
           THEN reqs' = [reqs EXCEPT ![r].pc = "checked"]
           ELSE reqs' = [reqs EXCEPT ![r].pc = "done", ![r].outcome = v]
        /\ UNCHANGED <<doctors, appts, now, resp, slots, clinic>>

\* lines 181-191: the insert and its commit
RaceInsert(r) ==
    LET q == reqs[r]
    IN  /\ q.pc = "checked"
        /\ appts' = Append(appts, Row(q.doctor, PatientByUser(q.user), q.start,
                                      q.start + BookingMinutes, "confirmed"))
        /\ reqs' = [reqs EXCEPT ![r].pc = "done", ![r].outcome = "booked"]
        /\ UNCHANGED <<doctors, now, resp, slots, clinic>>

NextRace == \E r \in RaceIds : RaceCheck(r) \/ RaceInsert(r)

SpecRace == InitRace /\ [][NextRace]_vars

\* ------------------------------------------------------------------------
\* SpecLoop: get_available_slots run one loop iteration at a time.  reqs holds
\* the frame of the call in progress: the locals of the generation loop.
\* ------------------------------------------------------------------------
\* the number of slot dictionaries the process has memory for: a list that
\* grows past it ends the call with MemoryError
MaxSlots == 5

\* the locals of the loop; pc is "while" at the test of the loop condition
\* and "body" inside the loop
Frame(doc, busy, current_time, work_end, slot_delta, break_delta, available_slots) ==
    [pc |-> "while", doc |-> doc, busy |-> busy, current_time |-> current_time,
     work_end |-> work_end, slot_delta |-> slot_delta, break_delta |-> break_delta,
     available_slots |-> available_slots]

\* stored configurations of a 09:00-10:00 day: two ordinary ones, three whose
\* cursor step slot_duration + break_duration is zero or negative, two whose
\* slot_duration is zero or negative, and one with nothing on record
LoopConfigs ==
    {Config(HM(9, 0), HM(10, 0), 30, 0),
     Config(HM(9, 0), HM(10, 0), 15, 10),
     Config(HM(9, 0), HM(10, 0), 30, -30),
     Config(HM(9, 0), HM(10, 0), 0, 0),
     Config(HM(9, 0), HM(10, 0), 30, -40),
     Config(HM(9, 0), HM(10, 0), 0, 20),
     Config(HM(9, 0), HM(10, 0), -10, 30),
     Config(NoTime, NoTime, NoMinutes, NoMinutes)}

LoopStores ==
    {<<>>,
     <<Row(1, 1, At(0, 9, 0), At(0, 9, 30), "confirmed")>>,
     <<Row(1, 1, At(0, 9, 20), At(0, 9, 50), "cancelled")>>,
     <<Row(1, 1, At(0, 9, 30), NoEnd, "confirmed")>>}

LoopQueries == {<<1, 0>>, <<DoctorUserId(1), NoDate>>, <<0, 0>>}

InitLoop ==
    /\ \E c \in LoopConfigs : doctors = [d \in DoctorIds |-> IF d = 1 THEN c ELSE OtherConfig]
    /\ appts \in LoopStores
    /\ now = At(0, 8, 0)
    /\ resp = NoResp
    /\ slots = <<>>
    /\ reqs = NoReqs
    /\ clinic = NoClinic

\* steps 1-4 and the set-up of the loop (lines 72-112)
LoopCall(doctor_id, date_arg) ==
    LET op == "get_available_slots"
        date == IF date_arg = NoDate THEN DateOf(now) ELSE date_arg
        doc == FindDoctor(doctor_id)
        cfg == doctors[doc]
        win == WorkWindow(cfg, date)
    IN  /\ reqs = NoReqs
        /\ slots' = <<>>
        /\ UNCHANGED <<doctors, appts, now, clinic>>
        /\ IF doc = 0
           THEN /\ resp' = Resp(op, "ok", doctor_id, date, 0, 0)
                /\ reqs' = NoReqs
           ELSE IF cfg.slot_duration = NoMinutes \/ cfg.break_duration = NoMinutes
           THEN /\ resp' = Resp(op, "TypeError", doctor_id, date, 0, 0)
                /\ reqs' = NoReqs
           ELSE /\ resp' = Resp(op, "running", doctor_id, date, 0, 0)
                /\ reqs' = <<Frame(doc, BusyIntervals(appts, doc, win), win.work_start,
                                   win.work_end, cfg.slot_duration, cfg.break_duration,
                                   <<>>)>>

\* the while condition holds: enter the body (line 115)
LoopEnter ==
    /\ reqs # NoReqs
    /\ reqs[1].pc = "while"
    /\ InWorkHours(reqs[1].current_time, reqs[1].slot_delta, reqs[1].work_end)
    /\ reqs' = <<[reqs[1] EXCEPT !.pc = "body"]>>
    /\ UNCHANGED <<doctors, appts, now, resp, slots, clinic>>

\* the body of the while loop: conflict check, append, increment (lines 116-138)
LoopBody ==
    /\ reqs # NoReqs
    /\ reqs[1].pc = "body"
    /\ LET f == reqs[1]
           slot_end == f.current_time + f.slot_delta
           c == ConflictScan(f.busy, 1, f.current_time, slot_end)
       IN  IF c = "error"
           THEN /\ resp' = [resp EXCEPT !.outcome = "TypeError"]
                /\ reqs' = NoReqs
           ELSE IF c = "free" /\ Len(f.available_slots) >= MaxSlots
           THEN /\ resp' = [resp EXCEPT !.outcome = "MemoryError"]
                /\ reqs' = NoReqs
           ELSE /\ resp' = resp
                /\ reqs' = <<[f EXCEPT
                                !.pc = "while",
                                !.current_time = NextCursor(slot_end, f.break_delta),
                                !.available_slots =
                                    IF c = "free"
                                    THEN Append(@, SlotDict(f.doc, f.current_time, slot_end))
                                    ELSE @]>>
    /\ UNCHANGED <<doctors, appts, now, slots, clinic>>

\* the while condition is false: return available_slots (line 140)
LoopReturn ==
    /\ reqs # NoReqs
    /\ reqs[1].pc = "while"
    /\ ~InWorkHours(reqs[1].current_time, reqs[1].slot_delta, reqs[1].work_end)
    /\ slots' = reqs[1].available_slots
    /\ resp' = [resp EXCEPT !.outcome = "ok"]
    /\ reqs' = NoReqs
    /\ UNCHANGED <<doctors, appts, now, clinic>>

LoopQuery == \E q \in LoopQueries : LoopCall(q[1], q[2])

NextLoop == LoopQuery \/ LoopEnter \/ LoopBody \/ LoopReturn

\* a call in progress keeps running: the interpreter does not stop
SpecLoop == InitLoop /\ [][NextLoop]_vars /\ WF_vars(NextLoop)

\* ------------------------------------------------------------------------
\* SpecCodec: the slot identifier, from the f-string of get_available_slots
\* to the parse of _handle_booking.  reqs holds one slot on its way: the id of
\* its doctor, its start, the slot_id rendered and what was decoded from it.
\* ------------------------------------------------------------------------
\* doctor ids as they print: integers, and strings that hold the separator
CodecIds ==
    {IntStr(1), IntStr(12), <<"a", "_", "b">>, <<"_", "7">>, <<"7", "_">>,
     <<"d", "_", "_", "1">>}

CodecStarts ==
    {At(d, h, m) : d \in {0, 1}, h \in {0, 9, 13, 23}, m \in {0, 5, 30, 59}}

InitCodec ==
    /\ doctors = [d \in DoctorIds |-> OtherConfig]
    /\ appts = <<>>
    /\ now = At(0, 8, 0)
    /\ resp = NoResp
    /\ slots = <<>>
    /\ \E id \in CodecIds, t \in CodecStarts :
          reqs = <<[stage |-> "slot", id |-> id, start |-> t, slot_id |-> NoSlotId,
                    doc_id_part |-> <<>>, start_dt |-> [ok |-> FALSE, t |-> 0]]>>
    /\ clinic = NoClinic

\* line 130 of get_available_slots
CodecEncode ==
    /\ reqs[1].stage = "slot"
    /\ reqs' = <<[reqs[1] EXCEPT !.stage = "offered",
                                 !.slot_id = SlotId(reqs[1].id, reqs[1].start)]>>
    /\ UNCHANGED <<doctors, appts, now, resp, slots, clinic>>

\* lines 133-136 of _handle_booking, with the date of the offer in data.date
CodecDecode ==
    /\ reqs[1].stage = "offered"
    /\ LET dec == DecodeSlotId(reqs[1].slot_id, DateOf(reqs[1].start))
       IN  reqs' = <<[reqs[1] EXCEPT !.stage = "decoded",
                                     !.doc_id_part = dec.doc_id_part,
                                     !.start_dt = dec.start]>>
    /\ UNCHANGED <<doctors, appts, now, resp, slots, clinic>>

NextCodec == CodecEncode \/ CodecDecode

SpecCodec == InitCodec /\ [][NextCodec]_vars

\* ------------------------------------------------------------------------
\* Specification SpecBlock: doctors blocking their time while the clock moves
\* over the starts they ask for (POST /schedule/block alone)
\* ------------------------------------------------------------------------
BlockClock == <<At(0, 23, 0), At(1, 0, 0), At(1, 9, 0), At(1, 12, 30)>>

\* user, date, time and is_whole_day of the calls: midnight and noon in the
\* 12-hour clock, a 24-hour time and an hour 13, which do not parse
BlockCalls ==
    {<<u, 1, t, w>> : u \in {DoctorUserId(1), DoctorUserId(2), PatientUserId(1)},
                      t \in {HM12(12, 0, "AM"), HM12(9, 0, "AM"), HM12(12, 30, "PM"),
                             HM(9, 0), HM12(13, 0, "PM")},
                      w \in BOOLEAN}

InitBlock ==
    /\ doctors \in [DoctorIds -> InitConfigs]
    /\ appts = <<>>
    /\ now = BlockClock[1]
    /\ resp = NoResp
    /\ slots = <<>>
    /\ reqs = NoReqs
    /\ clinic = NoClinic

BlockTick ==
    /\ \E i \in 1..(Len(BlockClock) - 1) : now = BlockClock[i] /\ now' = BlockClock[i + 1]
    /\ resp' = Resp("tick", "none", 0, 0, 0, 0)
    /\ slots' = <<>>
    /\ UNCHANGED <<doctors, appts, reqs, clinic>>

BlockCall == \E r \in BlockCalls : block_schedule_slot(r[1], r[2], r[3], r[4])

NextBlock == BlockTick \/ BlockCall

SpecBlock == InitBlock /\ [][NextBlock]_vars

\* ------------------------------------------------------------------------
\* Specification SpecStock: two booked visits of doctor 1, a treatment of
\* hospital 1 that uses gloves, and the calls that complete or cancel the
\* visits and change the inventory
\* ------------------------------------------------------------------------
StockAppts ==
    <<Row(1, 1, At(1, 9, 0), At(1, 9, 30), "confirmed"),
      Row(1, 2, At(1, 10, 0), At(1, 10, 30), "confirmed")>>

\* the treatment_type of the two visits: the second is or is not in the
\* catalogue
StockTypes == {<<"Filling", "Filling">>, <<"Filling", "Checkup">>}

StockQuantities == {-2, 1}

\* uploaded files: a restock of gloves, a negative count of gloves, and a file
\* with a new item after a row whose quantity is no integer
StockFiles ==
    {<<CsvRow("gloves", TRUE, 1)>>,
     <<CsvRow("gloves", TRUE, -2)>>,
     <<CsvRow("gloves", FALSE, 0), CsvRow("masks", TRUE, 1)>>}

InitStock ==
    /\ doctors = [d \in DoctorIds |-> OtherConfig]
    /\ appts = StockAppts
    /\ now = At(0, 8, 0)
    /\ resp = NoResp
    /\ slots = <<>>
    /\ reqs = NoReqs
    /\ \E r \in {1, 2}, types \in StockTypes :
          clinic = [inventory |-> <<Item(1, "gloves", 3)>>,
                    treatments |-> <<Treatment(1, "Filling", 100, <<Link(1, r)>>)>>,
                    treatment_type |-> types,
                    invoices |-> <<>>]

StockComplete ==
    \E u \in {DoctorUserId(1), DoctorUserId(2)}, id \in 1..Len(StockAppts) :
        complete_appointment(u, id)

StockCancel ==
    \E p \in PatientIds, id \in 1..Len(StockAppts) :
        cancel_patient_appointment(PatientUserId(p), id)

\* doctor 1 changes the count of the gloves; doctor 2 of another hospital and
\* a patient try to
StockUpdate ==
    \/ \E n \in StockQuantities : update_inventory_qty(DoctorUserId(1), 1, n)
    \/ \E u \in {DoctorUserId(2), PatientUserId(1)} : update_inventory_qty(u, 1, 1)

StockAdd == \E n \in StockQuantities : add_inventory_item(DoctorUserId(1), "masks", n)

StockUpload == \E f \in StockFiles : upload_inventory(DoctorUserId(1), f)

NextStock == StockComplete \/ StockCancel \/ StockUpdate \/ StockAdd \/ StockUpload

SpecStock == InitStock /\ [][NextStock]_vars

\* ------------------------------------------------------------------------
\* The last call was a get_available_slots that returned a list
\* ------------------------------------------------------------------------
QueryOk == resp.op = "get_available_slots" /\ resp.outcome = "ok"

QDoc == FindDoctor(resp.doctor)

QCfg == doctors[QDoc]

QWin == WorkWindow(QCfg, resp.date)

\* a returned "HH:MM" on the queried date
OnQueryDate(ts) == At(resp.date, ts.h, ts.m)

\* the appointments of doctor doc that are not cancelled and overlap [s, e)
BusyOverlapping(doc, s, e) ==
    {k \in 1..Len(appts) :
        /\ appts[k].doctor_id = doc
        /\ appts[k].status # "cancelled"
        /\ appts[k].end_time # NoEnd
        /\ Overlap(s, e, appts[k].start_time, appts[k].end_time)}

\* the candidates of the raw cadence: index k starts at work_start + k * (d + b)
CadenceStart(k) == QWin.work_start + k * (QCfg.slot_duration + QCfg.break_duration)

CadenceIndexes ==
    0..((QWin.work_end - QWin.work_start) \div (QCfg.slot_duration + QCfg.break_duration) + 1)

Offered(s, e) ==
    \E i \in 1..Len(slots) : slots[i].start = StrfTime(s) /\ slots[i].end = StrfTime(e)

\* C1: no slot returned by get_available_slots overlaps a non-cancelled
\* appointment of that doctor, also one that starts before work_start and
\* extends into the working window.
C1_NoSlotOverlapsBusy ==
    QueryOk =>
        \A i \in 1..Len(slots) :
            BusyOverlapping(slots[i].doctor_id, OnQueryDate(slots[i].start),
                            OnQueryDate(slots[i].end)) = {}

\* C8: the returned list is ordered earliest-first and pairwise
\* non-overlapping (slot[i].end <= slot[j].start for i < j) whenever the slot
\* duration is positive and the break is not negative.
C8_OrderedNonOverlapping ==
    (QueryOk /\ QDoc # 0 /\ QCfg.slot_duration > 0 /\ QCfg.break_duration >= 0) =>
        \A i, j \in 1..Len(slots) :
            i < j => MinuteOfDay(slots[i].end) <= MinuteOfDay(slots[j].start)

\* a call returned three or more slots around a skipped candidate, with a
\* positive break
C8_Witness ==
    /\ QueryOk
    /\ QDoc # 0
    /\ Len(slots) >= 3
    /\ QCfg.break_duration > 0
    /\ \E k \in CadenceIndexes :
          BusyOverlapping(QDoc, CadenceStart(k), CadenceStart(k) + QCfg.slot_duration) # {}

\* C9: every returned slot lies inside the working window; a conflict-free
\* candidate that ends exactly at work_end is offered, and a candidate that
\* ends after work_end is never offered.
C9_InsideWorkingWindow ==
    (QueryOk /\ QDoc # 0) =>
        /\ \A i \in 1..Len(slots) :
              /\ QWin.work_start <= OnQueryDate(slots[i].start)
              /\ OnQueryDate(slots[i].end) <= QWin.work_end
        /\ \A k \in CadenceIndexes :
              LET s == CadenceStart(k)
                  e == s + QCfg.slot_duration
              IN  /\ (e = QWin.work_end /\ BusyOverlapping(QDoc, s, e) = {}) => Offered(s, e)
                  /\ e >= QWin.work_end + 1 => ~Offered(s, e)

\* the last slot returned ends exactly at work_end, in a window that holds
\* three or more candidates
C9_Witness ==
    /\ QueryOk
    /\ QDoc # 0
    /\ Len(slots) >= 3
    /\ OnQueryDate(slots[Len(slots)].end) = QWin.work_end

\* C10: every returned slot starts at work_start + k * (slot_duration +
\* break_duration) and lasts slot_duration, whatever the busy intervals are;
\* two slots emitted from consecutive candidates are break_duration apart.
C10_FixedCadence ==
    (QueryOk /\ QDoc # 0) =>
        /\ \A i \in 1..Len(slots) :
              /\ \E k \in CadenceIndexes : OnQueryDate(slots[i].start) = CadenceStart(k)
              /\ OnQueryDate(slots[i].end) = OnQueryDate(slots[i].start) + QCfg.slot_duration
        /\ \A i \in 1..(Len(slots) - 1) :
              (\E k \in CadenceIndexes :
                  /\ OnQueryDate(slots[i].start) = CadenceStart(k)
                  /\ OnQueryDate(slots[i + 1].start) = CadenceStart(k + 1))
                => OnQueryDate(slots[i + 1].start) - OnQueryDate(slots[i].end)
                       = QCfg.break_duration

\* a candidate was skipped for a conflict, later candidates were still emitted
\* on the cadence, and the break is positive
C10_Witness ==
    /\ QueryOk
    /\ QDoc # 0
    /\ QCfg.break_duration > 0
    /\ \E i \in 1..(Len(slots) - 1) :
          OnQueryDate(slots[i + 1].start) - OnQueryDate(slots[i].end) > QCfg.break_duration
    /\ \E i \in 1..(Len(slots) - 1) :
          OnQueryDate(slots[i + 1].start) - OnQueryDate(slots[i].end) = QCfg.break_duration

\* ------------------------------------------------------------------------
\* Claims about the handlers
\* ------------------------------------------------------------------------
\* the non-cancelled rows of doctor doc, other than row self, that overlap [s, e)
OtherBusyOverlapping(doc, s, e, self) == BusyOverlapping(doc, s, e) \ {self}

\* C2: of two concurrent create_appointment requests for one doctor with
\* overlapping windows at most one inserts a confirmed appointment; the other
\* is rejected with a conflict.
C2_RaceLoserRejected ==
    (/\ Len(reqs) = 2
     /\ reqs[1].doctor = reqs[2].doctor
     /\ Overlap(reqs[1].start, reqs[1].start + BookingMinutes,
                reqs[2].start, reqs[2].start + BookingMinutes))
        => ~(reqs[1].outcome = "booked" /\ reqs[2].outcome = "booked")

\* C3: once a whole-day block (00:00-23:59, status blocked) is stored for a
\* doctor and a date, get_available_slots for that doctor and date returns an
\* empty list and no error.
C3_WholeDayBlockNoSlots ==
    (/\ resp.op = "get_available_slots"
     /\ QDoc # 0
     /\ \E k \in 1..Len(appts) :
           /\ appts[k].doctor_id = QDoc
           /\ appts[k].status = "blocked"
           /\ appts[k].start_time = At(resp.date, 0, 0)
           /\ appts[k].end_time = EndOfDay(resp.date))
        => (resp.outcome = "ok" /\ slots = <<>>)

\* C4: create_appointment books no interval that overlaps an appointment of
\* that doctor whose status is confirmed, blocked, in_progress or completed.
C4_CreateRejectsEveryOverlap ==
    (resp.op = "create_appointment" /\ resp.outcome = "booked")
        => OtherBusyOverlapping(resp.doctor, resp.start, resp.start + BookingMinutes,
                                resp.appt) = {}

\* C5: a booking from a slot identifier (_handle_booking, book_slot) inserts
\* only if [start, start + slot_duration) overlaps no non-cancelled
\* appointment of that doctor, whatever the start time of that appointment.
C5_SlotBookingRejectsEveryOverlap ==
    (/\ resp.op \in {"handle_booking", "book_slot"}
     /\ resp.outcome \in {"booking_confirmed", "success"})
        => OtherBusyOverlapping(resp.doctor, resp.start,
                                resp.start + doctors[resp.doctor].slot_duration,
                                resp.appt) = {}

\* the outcomes of create_appointment that precede the parse of the time
CreateEarlyOutcomes == {"403", "400 no profile", "404", "400 format"}

\* C6: create_appointment answers a start strictly before now with the
\* past-time error whether or not the interval conflicts, and never answers a
\* start at or after now with it.
C6_PastRuleFirst ==
    (resp.op = "create_appointment" /\ resp.outcome \notin CreateEarlyOutcomes)
        => (resp.outcome = "past" <=> resp.start < now)

\* a past request that also overlaps a stored appointment got the past-time error
C6_Witness ==
    /\ resp.op = "create_appointment"
    /\ resp.outcome = "past"
    /\ BusyOverlapping(resp.doctor, resp.start, resp.start + BookingMinutes) # {}

\* the candidates of doctor doc on a date, as get_available_slots renders them
Candidates(docs, doc, date) ==
    LET cfg == docs[doc]
        win == WorkWindow(cfg, date)
        step == cfg.slot_duration + cfg.break_duration
    IN  {[s |-> win.work_start + k * step, e |-> win.work_start + k * step + cfg.slot_duration] :
            k \in {j \in 0..((win.work_end - win.work_start) \div step) :
                      win.work_start + j * step + cfg.slot_duration <= win.work_end}}

InList(list, doc, c) == \E i \in 1..Len(list) : list[i] = SlotDict(doc, c.s, c.e)

\* the rows the scheduler holds against candidate c
Withholders(docs, store, doc, date, c) ==
    {k \in 1..Len(store) :
        /\ FetchedRow(store[k], doc, WorkWindow(docs[doc], date))
        /\ store[k].end_time # NoEnd
        /\ Overlap(c.s, c.e, store[k].start_time, store[k].end_time)}

\* C7: a slot that get_available_slots withholds only because of one
\* appointment is offered again by the call that follows the cancellation of
\* that appointment; a cancelled appointment never withholds a slot.
C7_CancelReoffersSlot ==
    [][/\ (resp'.op = "cancel_patient_appointment" /\ resp'.outcome = "cancelled") =>
            \A doc \in {resp'.doctor}, date \in {DateOf(resp'.start)} :
                LET before == GetAvailableSlots(doctors, appts, now, doc, date)
                    after == GetAvailableSlots(doctors', appts', now', doc, date)
                IN  \A c \in Candidates(doctors, doc, date) :
                        (/\ ~before.error
                         /\ ~InList(before.list, doc, c)
                         /\ Withholders(doctors, appts, doc, date, c) = {resp'.appt})
                            => (~after.error /\ InList(after.list, doc, c))
       /\ (resp'.op = "get_available_slots" /\ resp'.outcome = "ok"
             /\ FindDoctor(resp'.doctor) # 0) =>
            \A c \in Candidates(doctors', FindDoctor(resp'.doctor), resp'.date) :
                ~InList(slots', FindDoctor(resp'.doctor), c) =>
                    \E k \in 1..Len(appts') :
                        /\ appts'[k].status # "cancelled"
                        /\ appts'[k].doctor_id = FindDoctor(resp'.doctor)
                        /\ Overlap(c.s, c.e, appts'[k].start_time, appts'[k].end_time)
      ]_vars

\* after a cancellation, a call offers the slot the cancelled appointment covers
C7_Witness ==
    /\ QueryOk
    /\ QDoc # 0
    /\ \E k \in 1..Len(appts), i \in 1..Len(slots) :
          /\ appts[k].doctor_id = QDoc
          /\ appts[k].status = "cancelled"
          /\ OnQueryDate(slots[i].start) = appts[k].start_time
          /\ OnQueryDate(slots[i].end) = appts[k].end_time

\* ------------------------------------------------------------------------
\* Claims about the generated list as a whole
\* ------------------------------------------------------------------------
\* the slot duration d and the break b are on record
HasDurations(cfg) == cfg.slot_duration # NoMinutes /\ cfg.break_duration # NoMinutes

\* the indexes k of the cadence candidates that fit: start + d <= work_end
FittingIndexes ==
    {k \in CadenceIndexes : CadenceStart(k) + QCfg.slot_duration <= QWin.work_end}

\* the appointments of doctor doc, cancelled or not, that start on a date
RowsOnDate(doc, date) ==
    {k \in 1..Len(appts) : appts[k].doctor_id = doc /\ DateOf(appts[k].start_time) = date}

DefaultConfig == Config(FallbackStart, FallbackEnd, 30, 0)

\* what the last call returns for the same table when the doctor is
\* configured as cfg
ListUnder(cfg) ==
    GetAvailableSlots([doctors EXCEPT ![QDoc] = cfg], appts, now, resp.doctor, resp.date)

HoursParse(cfg) ==
    /\ StrpTime24(resp.date, cfg.work_start_time).ok
    /\ StrpTime24(resp.date, cfg.work_end_time).ok

\* C13: when the stored work_start_time or work_end_time does not parse as
\* HH:MM, get_available_slots does not fail and returns the slots of the
\* whole default configuration (09:00-17:00, 30-minute slots, no break).
C13_UnparsableHoursUseDefaults ==
    (/\ resp.op = "get_available_slots"
     /\ QDoc # 0
     /\ QCfg.work_start_time # NoTime
     /\ QCfg.work_end_time # NoTime
     /\ HasDurations(QCfg)
     /\ ~HoursParse(QCfg))
        => (resp.outcome = "ok" /\ slots = ListUnder(DefaultConfig).list)

\* C14: when both working hours parse and work_end is not strictly after
\* work_start, get_available_slots returns the slots of the default window
\* 09:00-17:00 instead of those of the configured window.
C14_InvertedWindowUsesDefault ==
    (/\ resp.op = "get_available_slots"
     /\ QDoc # 0
     /\ HasDurations(QCfg)
     /\ HoursParse(QCfg)
     /\ QWin.work_end <= QWin.work_start)
        => /\ resp.outcome = "ok"
           /\ slots = ListUnder([QCfg EXCEPT !.work_start_time = FallbackStart,
                                             !.work_end_time = FallbackEnd]).list

\* C15: for a doctor with no schedule configuration on record (working hours,
\* slot duration or break duration missing) get_available_slots returns the
\* slots of the default configuration and does not fail.
C15_MissingConfigUsesDefaults ==
    (/\ resp.op = "get_available_slots"
     /\ QDoc # 0
     /\ \/ QCfg.work_start_time = NoTime
        \/ QCfg.work_end_time = NoTime
        \/ ~HasDurations(QCfg))
        => (resp.outcome = "ok" /\ slots = ListUnder(DefaultConfig).list)

\* ------------------------------------------------------------------------
\* Claims about degenerate durations
\* ------------------------------------------------------------------------
\* C16: get_available_slots terminates for every stored configuration and
\* every set of busy intervals, also when slot_duration + break_duration is
\* zero or negative: a call in progress always reaches its return.
C16_LoopTerminates == (reqs # NoReqs) ~> (reqs = NoReqs)

\* C17: when a zero or negative slot duration reaches get_available_slots the
\* call ends in an error outcome, and no returned slot ends at or before its
\* start.
C17_DegenerateDurationFails ==
    (/\ resp.op = "get_available_slots"
     /\ resp.outcome # "running"
     /\ QDoc # 0
     /\ HasDurations(QCfg)
     /\ QCfg.slot_duration <= 0)
        => /\ resp.outcome # "ok"
           /\ \A i \in 1..Len(slots) :
                 MinuteOfDay(slots[i].end) > MinuteOfDay(slots[i].start)

\* ------------------------------------------------------------------------
\* Claims about the answers of the booking guards
\* ------------------------------------------------------------------------
\* C18: a conflict rejection of create_appointment says "unavailable" when
\* the proposed interval overlaps a blocked interval and "already booked" when
\* it overlaps prior bookings only, whatever the order of the rows in the
\* store.
C18_ConflictReasonByIntervals ==
    (resp.op = "create_appointment" /\ resp.outcome \in {"unavailable", "already booked"})
        => (resp.outcome = "unavailable"
              <=> \E k \in BusyOverlapping(resp.doctor, resp.start,
                                           resp.start + BookingMinutes) :
                      appts[k].status = "blocked")

\* the outcomes of the accepted path of the two booking guards
AcceptedOutcomes == {"booked", "booking_confirmed"}

\* C19: validation performs no mutation: a call of create_appointment or
\* _handle_booking that rejects (past time, conflict, invalid slot identifier,
\* unknown doctor or patient) leaves the stored appointments and their
\* statuses as they were; the accepted path appends one appointment with
\* status confirmed and changes no other row.
C19_RejectionLeavesStore ==
    [][resp'.op \in {"create_appointment", "handle_booking"} =>
          IF resp'.outcome \in AcceptedOutcomes
          THEN /\ Len(appts') = Len(appts) + 1
               /\ SubSeq(appts', 1, Len(appts)) = appts
               /\ appts'[Len(appts')].status = "confirmed"
          ELSE appts' = appts
      ]_vars

\* _handle_booking answered retry_slot over a table that holds the
\* appointment in the way
C19_Witness ==
    /\ resp.op = "handle_booking"
    /\ resp.outcome = "retry_slot"
    /\ SameStartRows(appts, resp.doctor, resp.start) # {}

\* ------------------------------------------------------------------------
\* Claims about the slot identifier
\* ------------------------------------------------------------------------
\* C20: slot identifier round trip: for every doctor id, also one that holds
\* the separator character, and every slot start, decoding the slot_id that
\* get_available_slots renders yields the same doctor id, the same hour and
\* minute, and with the same date the start of the offered slot.
C20_SlotIdRoundTrip ==
    (Len(reqs) = 1 /\ reqs[1].stage = "decoded")
        => /\ reqs[1].doc_id_part = reqs[1].id
           /\ reqs[1].start_dt.ok
           /\ StrfTime(reqs[1].start_dt.t) = StrfTime(reqs[1].start)
           /\ reqs[1].start_dt.t = reqs[1].start

\* decoded: the slot of 09:05 of a doctor whose id holds the separator
C20_Witness ==
    /\ Len(reqs) = 1
    /\ reqs[1].stage = "decoded"
    /\ Separators(reqs[1].id) # {}
    /\ StrfTime(reqs[1].start) = HM(9, 5)
    /\ reqs[1].start_dt = [ok |-> TRUE, t |-> reqs[1].start]

\* ------------------------------------------------------------------------
\* Claims about malformed identifiers, past times and determinism
\* ------------------------------------------------------------------------
\* HHMM: two digits of an hour 00..23 and two digits of a minute 00..59
ValidHHMM(tp) ==
    /\ Len(tp) = 4
    /\ \A i \in 1..4 : IsDigit(tp[i])
    /\ DigitVal(tp[1]) * 10 + DigitVal(tp[2]) <= 23
    /\ DigitVal(tp[3]) * 10 + DigitVal(tp[4]) <= 59

\* a slot identifier that is not "<doctor id>_HHMM" of a stored doctor
Malformed(slot_id) ==
    \/ Separators(slot_id) = {}
    \/ ~ValidHHMM(SubSeq(slot_id, LastSeparator(slot_id) + 1, Len(slot_id)))
    \/ DoctorByIdStr(SubSeq(slot_id, 1, LastSeparator(slot_id) - 1)) = 0

\* C21: _handle_booking given a malformed slot identifier (no separator, a
\* time part that is not a valid HHMM, a doctor part that names no doctor) and
\* a patient answers with the invalid-slot-identifier outcome and creates no
\* appointment.
C21_MalformedSlotRejected ==
    [][\A r \in AgentRequests :
          (/\ r[1] # NoSlotId
           /\ r[2] # NoPatient
           /\ Malformed(r[1])
           /\ handle_booking(r[1], r[2], r[3]))
              => (resp'.outcome = "invalid slot" /\ appts' = appts)
      ]_vars

\* the start a block request asks for: midnight of the date for a whole day,
\* else the time of the 12-hour clock on the date
BlockStart(date, time, is_whole_day) ==
    IF is_whole_day THEN date * MinutesPerDay
    ELSE date * MinutesPerDay
            + ((time.h % 12) + (IF time.p = "PM" THEN 12 ELSE 0)) * 60 + time.m

\* a block request of a doctor whose date and time can be read
BlockReadable(r) ==
    /\ Role(r[1]) = "doctor"
    /\ r[4] \/ (r[3].p \in {"AM", "PM"} /\ r[3].h \in 1..12 /\ r[3].m \in 0..59)

\* C22: block_schedule_slot rejects a block whose start is before the current
\* time with the past-time error and inserts nothing; a block whose start is
\* at or after now is inserted with status blocked.
C22_BlockPastRule ==
    [][\A r \in BlockCalls :
          (BlockReadable(r) /\ block_schedule_slot(r[1], r[2], r[3], r[4]))
              => IF BlockStart(r[2], r[3], r[4]) < now
                 THEN resp'.outcome = "past" /\ appts' = appts
                 ELSE /\ resp'.outcome \in {"blocked", "blocked day"}
                      /\ Len(appts') = Len(appts) + 1
                      /\ SubSeq(appts', 1, Len(appts)) = appts
                      /\ appts'[Len(appts')].status = "blocked"
                      /\ appts'[Len(appts')].start_time = BlockStart(r[2], r[3], r[4])
                      /\ appts'[Len(appts')].doctor_id = DoctorByUser(r[1])
      ]_vars

\* a block that starts exactly at the current time was stored
C22_Witness ==
    /\ resp.op = "block_schedule_slot"
    /\ resp.outcome \in {"blocked", "blocked day"}
    /\ resp.start = now
    /\ Len(appts) >= 1
    /\ appts[Len(appts)].status = "blocked"
    /\ appts[Len(appts)].start_time = now

C24_NoPastInsert ==
    [][(/\ resp'.op \in {"create_appointment", "handle_booking", "book_slot"}
        /\ Len(appts') = Len(appts) + 1)
          => appts'[Len(appts')].start_time >= now
      ]_vars

\* ------------------------------------------------------------------------
\* Claims about the life of an appointment
\* ------------------------------------------------------------------------
\* pairs of rows of one doctor, neither cancelled, whose intervals overlap
LiveOverlaps ==
    {<<j, k>> \in (1..Len(appts)) \X (1..Len(appts)) :
        /\ j < k
        /\ appts[j].doctor_id = appts[k].doctor_id
        /\ appts[j].status # "cancelled"
        /\ appts[k].status # "cancelled"
        /\ appts[j].start_time < appts[k].end_time
        /\ appts[k].start_time < appts[j].end_time}

\* C25: after any sequence of create_appointment, cancel_patient_appointment
\* and complete_appointment calls made one after another from an empty store,
\* no two appointments of the same doctor whose statuses are both not
\* cancelled have overlapping intervals.
C25_SequentialNoOverlap == LiveOverlaps = {}

\* C26: the status cancelled is terminal: once an appointment is cancelled no
\* operation (cancel_patient_appointment, complete_appointment, booking or
\* blocking) changes the status of that appointment again.
C26_CancelledIsTerminal ==
    [][\A k \in 1..Len(appts) :
          appts[k].status = "cancelled"
              => (k <= Len(appts') /\ appts'[k].status = "cancelled")
      ]_vars

\* C27: block_schedule_slot never produces a blocked interval that overlaps
\* an existing confirmed appointment of the same doctor: after any sequence
\* of create_appointment and block_schedule_slot calls, no blocked interval
\* and confirmed appointment of one doctor overlap.
C27_BlockAvoidsConfirmed ==
    \A j, k \in 1..Len(appts) :
        (/\ appts[j].status = "blocked"
         /\ appts[k].status = "confirmed"
         /\ appts[j].doctor_id = appts[k].doctor_id)
            => ~(/\ appts[j].start_time < appts[k].end_time
                 /\ appts[k].start_time < appts[j].end_time)

\* ------------------------------------------------------------------------
\* Claims about the agreement of offer and validation
\* ------------------------------------------------------------------------
\* C28: slot generation and booking validation agree: every slot that
\* get_available_slots offers for a future date is accepted by
\* create_appointment when its start is submitted with no change to the store
\* in between, for every configured slot duration (15, 30, 45, 60) and break.
C28_OfferedSlotAccepted ==
    [][(/\ resp.op = "get_available_slots"
        /\ resp.outcome = "ok"
        /\ resp.date > DateOf(now)
        /\ resp'.op = "create_appointment"
        /\ resp'.doctor = FindDoctor(resp.doctor)
        /\ resp'.date = resp.date
        /\ \E i \in 1..Len(slots) : OnQueryDate(slots[i].start) = resp'.start)
          => resp'.outcome = "booked"
      ]_vars

\* ------------------------------------------------------------------------
\* Claims about inventory and invoices
\* ------------------------------------------------------------------------
\* C29: an inventory item's quantity is never negative: starting from
\* non-negative quantities, after any sequence of complete_appointment,
\* update_inventory_qty, upload_inventory and add_inventory_item calls with
\* arbitrary integer inputs, every stored item has quantity >= 0.
C29_QuantityNeverNegative ==
    \A i \in 1..Len(clinic.inventory) : clinic.inventory[i].quantity >= 0

\* the invoices written for an appointment
InvoicesOf(c, id) == {k \in 1..Len(c.invoices) : c.invoices[k].appointment_id = id}

\* C30: an appointment is invoiced and its stock deducted at most once: over
\* any sequence of complete_appointment and cancel_patient_appointment calls
\* at most one invoice exists per appointment, a completed appointment stays
\* completed (it is neither completed again nor cancelled) and gets no further
\* invoice, and complete_appointment writes an invoice or touches the
\* inventory only in the step that completes an appointment not yet
\* completed, where it deducts the required items of the treatment once.
C30_InvoicedAndDeductedOnce ==
    [][/\ \A id \in 1..Len(appts') : Cardinality(InvoicesOf(clinic', id)) <= 1
       /\ \A id \in 1..Len(appts) :
             appts[id].status = "completed"
                 => /\ appts'[id].status = "completed"
                    /\ InvoicesOf(clinic', id) = InvoicesOf(clinic, id)
       /\ (\/ clinic'.invoices # clinic.invoices
           \/ (resp'.op = "complete_appointment"
                 /\ clinic'.inventory # clinic.inventory))
             => /\ resp'.op = "complete_appointment"
                /\ resp'.outcome = "Completed"
                /\ appts[resp'.appt].status # "completed"
                /\ appts'[resp'.appt].status = "completed"
                /\ clinic'.invoices = Append(clinic.invoices,
                                             clinic'.invoices[Len(clinic'.invoices)])
                /\ clinic'.invoices[Len(clinic'.invoices)].appointment_id = resp'.appt
                /\ LET t == FindTreatment(TreatmentType(resp'.appt),
                                          HospitalOf(appts[resp'.appt].doctor_id))
                   IN  \A i \in 1..Len(clinic.inventory) :
                          clinic'.inventory[i].quantity
                              = clinic.inventory[i].quantity
                                  - (IF clinic.treatments[t].required_items[1].item_id = i
                                     THEN clinic.treatments[t].required_items[1].quantity_required
                                     ELSE 0)
      ]_vars

\* a second complete_appointment of a visit was answered "Already completed"
\* while both visits are completed and invoiced once each
C30_Witness ==
    /\ resp.op = "complete_appointment"
    /\ resp.outcome = "Already completed"
    /\ \A id \in 1..Len(appts) :
          appts[id].status = "completed" /\ Cardinality(InvoicesOf(clinic, id)) = 1

====
